---- MODULE Spec2Model ----
(***************************************************************************)
(* A model of the Coinalyze scanner (src/__main__.py): the main polling    *)
(* loop, handle_url, the lazily cached symbols, the two candle handlers    *)
(* with their shared set scanned_data, and convert_speech_to_text with its *)
(* temporary mp3 file.                                                     *)
(***************************************************************************)
EXTENDS Integers, Sequences, FiniteSets, TLC

(***************************************************************************)
(* Configuration (module level of src/__main__.py).                        *)
(***************************************************************************)
MINIMAL_LIQUIDATION == 10000
MINIMAL_OPEN_INTEREST == 10000000
ROUNDED_DIFFERENCE_OPEN_INTEREST == 0 - 6

\* SPEECH_MP3_DIR is read from the environment; "/tmp" is the default.
TmpDirs == {"/tmp", "/srv/mp3"}
\* the directory that pygame.mixer.music.load is given, whatever TMP_MP3_DIR is
LoadDir == "/tmp"

(***************************************************************************)
(* Bounds of the model.                                                    *)
(***************************************************************************)
MaxBatch == 2        \* candles in one history list
MaxMarkets == 2      \* market objects in one listing
MaxPlaySeconds == 1  \* sleep(1) rounds until the mixer is no longer busy
MaxRequests == 2     \* cap of the counter of markets-listing requests

(***************************************************************************)
(* Input domains.                                                          *)
(***************************************************************************)
\* candle times (epoch seconds), amounts and high/low pairs the API may send
Times == {1000}
Directions == {"long", "short"}
\* the threshold itself, and two amounts above it
LiqAmounts == {MINIMAL_LIQUIDATION, 15000, 10000000}
LiqCandles == [t : Times, l : LiqAmounts, s : LiqAmounts]

\* <<high, low>>: raw differences 9999999, 10000000, 10400000 (high < low)
\* and 11500000
OIHighLow == { <<30000000, 20000001>>, <<30000000, 20000000>>,
               <<20000000, 30400000>>, <<31500000, 20000000>> }
OICandles == { [t |-> t, o |-> 5, h |-> p[1], l |-> p[2]] :
               t \in Times, p \in OIHighLow }

\* identifiers as sequences of characters
MarketSymbols == { <<"B", "T", "C", "U">>, <<"b", "t", "c", "p">>,
                   <<"E", "T", "H">> }
Markets == [hasSymbol : {TRUE}, symbol : MarketSymbols]

SeqsUpTo(S, n) == UNION { [1..k -> S] : k \in 0..n }

(***************************************************************************)
(* Pure helpers.                                                           *)
(***************************************************************************)
Abs(x) == IF x < 0 THEN 0 - x ELSE x

RECURSIVE Pow10(_)
Pow10(k) == IF k = 0 THEN 1 ELSE 10 * Pow10(k - 1)

\* Python's round(n, ndigits) on an int n >= 0 with ndigits <= 0: the nearest
\* multiple of 10^-ndigits, a tie going to the even multiple.
Round(n, ndigits) ==
    LET unit == Pow10(0 - ndigits)
        q == n \div unit
        r == n % unit
    IN  IF 2 * r < unit THEN q * unit
        ELSE IF 2 * r > unit THEN (q + 1) * unit
        ELSE IF q % 2 = 0 THEN q * unit ELSE (q + 1) * unit

\* str.upper on one character
UpperChar(c) ==
    CASE c = "b" -> "B"
      [] c = "t" -> "T"
      [] c = "c" -> "C"
      [] c = "p" -> "P"
      [] OTHER -> c

Upper(s) == [i \in 1..Len(s) |-> UpperChar(s[i])]

StartsWith(s, prefix) ==
    /\ Len(s) >= Len(prefix)
    /\ SubSeq(s, 1, Len(prefix)) = prefix

RECURSIVE Join(_)
Join(list) ==
    IF list = <<>> THEN <<>>
    ELSE IF Len(list) = 1 THEN list[1]
    ELSE list[1] \o <<",">> \o Join(Tail(list))

(***************************************************************************)
(* HTTP responses.  A response is a status and a body; a body is the JSON  *)
(* value that response.json() yields, or a text that is no JSON.           *)
(***************************************************************************)
\* one element of a JSON array
NonObject == [isObject |-> FALSE, hasHistory |-> FALSE, history |-> <<>>]
ObjectWithout == [isObject |-> TRUE, hasHistory |-> FALSE, history |-> <<>>]
ObjectWith(h) == [isObject |-> TRUE, hasHistory |-> TRUE, history |-> h]
\* one market object of the listing: {"symbol": ...}
MarketObject(m) ==
    [isObject |-> TRUE, hasHistory |-> FALSE, history |-> <<>>,
     hasSymbol |-> m.hasSymbol, symbol |-> m.symbol]

Body(kind, elems) == [kind |-> kind, elems |-> elems]
Response(status, body) == [status |-> status, body |-> body]

\* requests.get raised, or raise_for_status raised
FailedResponses ==
    { Response(st, Body("none", <<>>)) : st \in {"transport_error", "http_error"} }
\* a 2xx response whose body is no JSON array of result objects
MalformedBodies ==
    { Body(k, <<>>) : k \in {"empty", "not_json", "null", "object"} }
    \cup { Body("array", <<NonObject>>) }
MalformedResponses == { Response("ok", b) : b \in MalformedBodies }
\* other 2xx bodies without a history: {} , [] and [{}]
EmptyResponses ==
    { Response("ok", Body("empty_object", <<>>)),
      Response("ok", Body("array", <<>>)),
      Response("ok", Body("array", <<ObjectWithout>>)) }
HistoryResponses(candles) ==
    { Response("ok", Body("array", <<ObjectWith(h)>>)) :
        h \in SeqsUpTo(candles, MaxBatch) }
\* the answer to a request for several symbols: one result object per
\* symbol, [{...}, {"history": [c]}]
MultiResultResponses(candles) ==
    { Response("ok", Body("array", <<first, ObjectWith(<<c>>)>>)) :
        first \in {ObjectWithout}
                    \cup { ObjectWith(h) : h \in SeqsUpTo(candles, 1) },
        c \in candles }
EndpointResponses(candles) ==
    FailedResponses \cup MalformedResponses \cup EmptyResponses
        \cup HistoryResponses(candles) \cup MultiResultResponses(candles)

\* the markets listing: an array of market objects
ListingResponses ==
    { Response("ok", Body("array", [i \in DOMAIN ms |-> MarketObject(ms[i])])) :
        ms \in SeqsUpTo(Markets, MaxMarkets) }
\* a history-style answer of the markets endpoint: [{"history": [market]}]
WrappedListingResponses ==
    { Response("ok", Body("array", <<ObjectWith(<<m>>)>>)) : m \in Markets }
MarketsResponses ==
    FailedResponses \cup MalformedResponses \cup EmptyResponses
        \cup ListingResponses \cup WrappedListingResponses

NoResponse == Response("none", Body("none", <<>>))

(***************************************************************************)
(* handle_url, from the point where requests.get has returned or raised.   *)
(* The result is the returned list, or raised = TRUE when an exception     *)
(* leaves handle_url.                                                      *)
(***************************************************************************)
Returned(list) == [raised |-> FALSE, value |-> list]
Raised == [raised |-> TRUE, value |-> <<>>]

\* lines 176-187: the try block; anything raised in it is printed and turned
\* into []
CaughtByTry(resp) ==
    \/ resp.status \in {"transport_error", "http_error"}
    \/ resp.body.kind \in {"empty", "not_json"}

\* the histories of all the results of an array, one after the other
RECURSIVE AllHistories(_)
AllHistories(elems) ==
    IF elems = <<>> THEN <<>>
    ELSE Head(elems).history \o AllHistories(Tail(elems))

\* mutant: the histories of all the results are returned
AfterTryAllResults(json) ==
    CASE json.kind = "null" -> Raised
      [] json.kind = "empty_object" -> Returned(<<>>)
      [] json.kind = "object" -> Raised
      [] json.kind = "array" ->
            IF Len(json.elems) = 0 THEN Returned(<<>>)
            ELSE IF ~json.elems[1].isObject THEN Raised
            ELSE Returned(AllHistories(json.elems))

\* lines 189-193, outside the try block
AfterTry(json) ==
    CASE json.kind = "null" -> Raised                \* len(None)
      [] json.kind = "empty_object" -> Returned(<<>>)
      [] json.kind = "object" -> Raised              \* response_json[0]
      [] json.kind = "array" ->
            IF Len(json.elems) = 0 THEN Returned(<<>>)
            ELSE IF ~json.elems[1].isObject THEN Raised   \* no .get
            ELSE IF json.elems[1].hasHistory
                 THEN Returned(json.elems[1].history)
                 ELSE Returned(<<>>)

\* mutant: the except clause lets the error of raise_for_status through
HandleUrlHttpErrorRaises(resp) ==
    IF resp.status = "http_error" THEN Raised
    ELSE IF CaughtByTry(resp) THEN Returned(<<>>) ELSE AfterTry(resp.body)

HandleUrl(resp) ==
    IF CaughtByTry(resp) THEN Returned(<<>>) ELSE AfterTry(resp.body)

(***************************************************************************)
(* The body of the cached property symbols, given the answer of the        *)
(* markets endpoint.                                                       *)
(***************************************************************************)
SymbolOf(market) == IF market.hasSymbol THEN market.symbol ELSE <<>>

BtcSymbols(markets) ==
    LET upper == [i \in DOMAIN markets |-> Upper(SymbolOf(markets[i]))]
    IN  SelectSeq(upper, LAMBDA s : StartsWith(s, <<"B", "T", "C">>))

Symbols(resp) ==
    LET r == HandleUrl(resp)
    IN  IF r.raised THEN Raised ELSE Returned(Join(BtcSymbols(r.value)))

(***************************************************************************)
(* The decisions of the two handlers.                                      *)
(***************************************************************************)
\* mutant: the direction is not part of the key
LiquidationTupleOneDirection(l_time, direction, liquidation_amount) ==
    <<l_time, "long", liquidation_amount>>

LiquidationTuple(l_time, direction, liquidation_amount) ==
    <<l_time, direction, liquidation_amount>>

\* mutant: the threshold itself counts as a liquidation
ExceedsOrEqualsMinimalLiquidation(amount) == amount >= MINIMAL_LIQUIDATION

ExceedsMinimalLiquidation(amount) == amount > MINIMAL_LIQUIDATION

\* mutant: the membership test is missing
NeverScanned(tuple, scanned) == TRUE

\* mutant: a key is taken as scanned when any key of its length with the same
\* first two fields is in the set
ScannedUpToLastField(tuple, scanned) ==
    ~ \E k \in scanned :
          /\ Len(k) = Len(tuple)
          /\ Len(k) = 2 => k = tuple
          /\ Len(k) = 3 => (k[1] = tuple[1] /\ k[2] = tuple[2])

NotScanned(tuple, scanned) == tuple \notin scanned

\* abs(int(candle_high) - int(candle_low)); the candles of the model carry
\* JSON integers, which int() returns as they are
Difference(history) == Abs(history.h - history.l)

RoundedDifference(difference) ==
    Round(difference, ROUNDED_DIFFERENCE_OPEN_INTEREST)

\* mutant: the open-interest key has the shape of a long liquidation key
OpenInterestTupleAsLong(history) ==
    <<history.t, "long", RoundedDifference(Difference(history))>>

OpenInterestTuple(history) ==
    <<history.t, RoundedDifference(Difference(history))>>

\* mutant: the threshold itself is no open-interest change
OpenInterestAnnouncesAbove(history, scanned) ==
    /\ Difference(history) > MINIMAL_OPEN_INTEREST
    /\ OpenInterestTuple(history) \notin scanned

\* mutant: the threshold is tested on the rounded difference
OpenInterestAnnouncesRounded(history, scanned) ==
    /\ RoundedDifference(Difference(history)) >= MINIMAL_OPEN_INTEREST
    /\ NotScanned(OpenInterestTuple(history), scanned)

OpenInterestAnnounces(history, scanned) ==
    /\ Difference(history) >= MINIMAL_OPEN_INTEREST
    /\ OpenInterestTuple(history) \notin scanned

\* mutant: the tuple is not remembered
ScannedAddNothing(scanned, tuple) == scanned

\* set.add
\* mutant: the insertion replaces the set by the new key
ScannedAddReplace(scanned, tuple) == {tuple}

ScannedAdd(scanned, tuple) == scanned \cup {tuple}

LiqKeys == { LiquidationTuple(t, d, a) : t \in Times, d \in Directions, a \in LiqAmounts }
OIKeys == { OpenInterestTuple(c) : c \in OICandles }
AllKeys == LiqKeys \cup OIKeys

(***************************************************************************)
(* State.                                                                  *)
(***************************************************************************)
VARIABLES
    pc,               \* where main is: poll_liq, liq_loop, sleep_1, poll_oi,
                      \* oi_loop, sleep_2, or crashed
    hpc,              \* where the handler of the current candle is
    net,              \* the request handle_url is waiting on, with its response
    batch,            \* the candles the for loop of main has still to take
    candle,           \* the candle handle_liquidation_set is working on
    cur,              \* the announcement in progress: key, mp3 title, next step
    scanned_data,     \* CoinalyzeScanner.scanned_data
    symbols,          \* the cached property CoinalyzeScanner.symbols
    TMP_MP3_DIR,      \* the configured directory of the mp3 file
    tmpFiles,         \* the mp3 files on disk, as <<directory, title>>
    playLeft,         \* seconds the mixer stays busy
    announced,        \* per key, the number of console announcements so far
    marketRequests,   \* requests sent to FUTURE_MARKETS_URL so far
    lastPoll,         \* how the request of the current cycle ended
    crash,            \* none, or what ended the process
    ignored           \* keys of the candles the open-interest loop under way
                      \* has skipped as below MINIMAL_OPEN_INTEREST

vars == <<pc, hpc, net, batch, candle, cur, scanned_data, symbols, TMP_MP3_DIR,
          tmpFiles, playLeft, announced, marketRequests, lastPoll, crash,
          ignored>>

LIQUIDATION_URL == "liquidation-history"
OPEN_INTEREST_URL == "open-interest-history"
FUTURE_MARKETS_URL == "future-markets"

NoRequest == [url |-> "none", resp |-> NoResponse]
NoCandle == [t |-> 0, l |-> 0, s |-> 0]
NoCur == [key |-> <<>>, title |-> <<>>, ret |-> "idle"]
NotCached == [cached |-> FALSE, value |-> <<>>]

Polling == {"poll_liq", "poll_oi"}
UrlOf(p) == IF p = "poll_liq" THEN LIQUIDATION_URL ELSE OPEN_INTEREST_URL
CandlesOf(p) == IF p = "poll_liq" THEN LiqCandles ELSE OICandles
LoopOf(p) == IF p = "poll_liq" THEN "liq_loop" ELSE "oi_loop"
Mp3Path(dir, title) == <<dir, title>>

Init ==
    /\ pc = "poll_liq"
    /\ hpc = "idle"
    /\ net = NoRequest
    /\ batch = <<>>
    /\ candle = NoCandle
    /\ cur = NoCur
    /\ scanned_data = {}
    /\ symbols = NotCached
    /\ TMP_MP3_DIR \in TmpDirs
    /\ tmpFiles = {}
    /\ playLeft = 0
    /\ announced = [k \in AllKeys |-> 0]
    /\ marketRequests = 0
    /\ lastPoll = "none"
    /\ crash = "none"
    /\ ignored = {}

(***************************************************************************)
(* handle_url(url) as main calls it.                                       *)
(***************************************************************************)
\* self.params reads self.symbols; a read that finds nothing cached sends the
\* markets request (marketRequests stops counting at MaxRequests)
MarketsRequest ==
    /\ pc \in Polling
    /\ net.url = "none"
    /\ ~symbols.cached
    /\ \E r \in MarketsResponses :
          net' = [url |-> FUTURE_MARKETS_URL, resp |-> r]
    /\ marketRequests' =
          IF marketRequests < MaxRequests THEN marketRequests + 1 ELSE marketRequests
    /\ UNCHANGED <<pc, hpc, batch, candle, ignored, cur, scanned_data, symbols,
                   TMP_MP3_DIR, tmpFiles, playLeft, announced, lastPoll, crash>>

\* the inner handle_url(FUTURE_MARKETS_URL, False) returns or raises; what it
\* raises leaves symbols uncached and is caught by the try of the outer
\* handle_url, which returns [] without sending its own request
SymbolsReturn ==
    /\ net.url = FUTURE_MARKETS_URL
    /\ LET s == Symbols(net.resp)
       IN  IF s.raised
           THEN /\ pc' = LoopOf(pc)
                /\ batch' = <<>>
                /\ lastPoll' = "not_sent"
                /\ UNCHANGED symbols
           ELSE /\ symbols' = [cached |-> TRUE, value |-> s.value]
                /\ UNCHANGED <<pc, batch, lastPoll>>
    /\ net' = NoRequest
    /\ UNCHANGED <<hpc, candle, ignored, cur, scanned_data, TMP_MP3_DIR, tmpFiles,
                   playLeft, announced, marketRequests, crash>>

\* requests.get(url, params=self.params) returns or raises
EndpointRequest ==
    /\ pc \in Polling
    /\ net.url = "none"
    /\ symbols.cached
    /\ \E r \in EndpointResponses(CandlesOf(pc)) :
          net' = [url |-> UrlOf(pc), resp |-> r]
    /\ UNCHANGED <<pc, hpc, batch, candle, ignored, cur, scanned_data, symbols,
                   TMP_MP3_DIR, tmpFiles, playLeft, announced, marketRequests,
                   lastPoll,
                   crash>>

\* the rest of handle_url; an exception leaving it leaves main as well
HandleUrlReturn ==
    /\ pc \in Polling
    /\ net.url = UrlOf(pc)
    /\ LET r == HandleUrl(net.resp)
       IN  IF r.raised
           THEN /\ pc' = "crashed"
                /\ crash' = "handle_url"
                /\ UNCHANGED <<net, batch>>
           ELSE /\ pc' = LoopOf(pc)
                /\ batch' = r.value
                /\ net' = NoRequest
                /\ UNCHANGED crash
    /\ lastPoll' = net.resp.status
    /\ UNCHANGED <<hpc, candle, ignored, cur, scanned_data, symbols, TMP_MP3_DIR,
                   tmpFiles, playLeft, announced, marketRequests>>

(***************************************************************************)
(* The announcement: the console line, then convert_speech_to_text, then   *)
(* scanned_data.add.                                                       *)
(***************************************************************************)
\* print(...) and the call of convert_speech_to_text
Announce(key, title, ret) ==
    /\ announced' = [announced EXCEPT ![key] = @ + 1]
    /\ cur' = [key |-> key, title |-> title, ret |-> ret]
    /\ hpc' = "tts_save"

\* mutant: main catches the exception and goes on with the sleep after the loop
CrashContinues(reason) ==
    /\ pc' = IF pc = "liq_loop" THEN "sleep_1" ELSE "sleep_2"
    /\ crash' = reason
    /\ batch' = <<>>
    /\ candle' = NoCandle
    /\ ignored' = {}

\* an exception that nothing catches unwinds the handler and main, and their
\* local variables with them, and ends the process
Crash(reason) ==
    /\ pc' = "crashed"
    /\ crash' = reason
    /\ batch' = <<>>
    /\ candle' = NoCandle
    /\ ignored' = {}

\* gTTS(...).save(f"{TMP_MP3_DIR}/{title}.mp3"); when it raises, the file may
\* or may not have been created
TtsSave ==
    /\ crash = "none"
    /\ hpc = "tts_save"
    /\ \/ /\ tmpFiles' = tmpFiles \cup {Mp3Path(TMP_MP3_DIR, cur.title)}
          /\ hpc' = "mixer_load"
          /\ UNCHANGED <<pc, crash, batch, candle, ignored>>
       \/ /\ \E created \in BOOLEAN :
                tmpFiles' = IF created
                            THEN tmpFiles \cup {Mp3Path(TMP_MP3_DIR, cur.title)}
                            ELSE tmpFiles
          /\ Crash("speech")
          /\ UNCHANGED hpc
    /\ UNCHANGED <<net, cur, scanned_data, symbols, TMP_MP3_DIR,
                   playLeft, announced, marketRequests, lastPoll>>

\* pygame.mixer.music.load(f"/tmp/{title}.mp3")
MixerLoad ==
    /\ crash = "none"
    /\ hpc = "mixer_load"
    /\ \/ /\ Mp3Path(LoadDir, cur.title) \in tmpFiles
          /\ hpc' = "mixer_play"
          /\ UNCHANGED <<pc, crash, batch, candle, ignored>>
       \/ /\ Crash("speech")
          /\ UNCHANGED hpc
    /\ UNCHANGED <<net, cur, scanned_data, symbols, TMP_MP3_DIR,
                   tmpFiles, playLeft, announced, marketRequests, lastPoll>>

\* set_volume(0.5) and play()
MixerPlay ==
    /\ crash = "none"
    /\ hpc = "mixer_play"
    /\ \/ /\ \E seconds \in 0..MaxPlaySeconds : playLeft' = seconds
          /\ hpc' = "wait_busy"
          /\ UNCHANGED <<pc, crash, batch, candle, ignored>>
       \/ /\ Crash("speech")
          /\ UNCHANGED <<hpc, playLeft>>
    /\ UNCHANGED <<net, cur, scanned_data, symbols, TMP_MP3_DIR,
                   tmpFiles, announced, marketRequests, lastPoll>>

\* mutant: the mixer is never waited for
NeverBusy(left) == FALSE

\* pygame.mixer.music.get_busy()
GetBusy(left) == left > 0

\* while get_busy(): sleep(1); then unload()
WaitBusy ==
    /\ crash = "none"
    /\ hpc = "wait_busy"
    /\ IF GetBusy(playLeft)
       THEN /\ playLeft' = playLeft - 1
            /\ UNCHANGED hpc
       ELSE /\ hpc' = "os_remove"
            /\ UNCHANGED playLeft
    /\ UNCHANGED <<pc, net, batch, candle, ignored, cur, scanned_data, symbols,
                   TMP_MP3_DIR, tmpFiles, announced, marketRequests, lastPoll, crash>>

\* os.remove(f"{TMP_MP3_DIR}/{title}.mp3")
OsRemove ==
    /\ crash = "none"
    /\ hpc = "os_remove"
    /\ tmpFiles' = tmpFiles \ {Mp3Path(TMP_MP3_DIR, cur.title)}
    /\ hpc' = "add"
    /\ UNCHANGED <<pc, net, batch, candle, ignored, cur, scanned_data, symbols,
                   TMP_MP3_DIR, playLeft, announced, marketRequests, lastPoll, crash>>

\* self.scanned_data.add(tuple), and the return to the caller
ScannedDataAdd ==
    /\ crash = "none"
    /\ hpc = "add"
    /\ scanned_data' = ScannedAdd(scanned_data, cur.key)
    /\ hpc' = cur.ret
    /\ cur' = NoCur
    /\ candle' = IF cur.ret = "idle" THEN NoCandle ELSE candle
    /\ UNCHANGED <<pc, net, batch, ignored, symbols, TMP_MP3_DIR, tmpFiles, playLeft,
                   announced, marketRequests, lastPoll, crash>>

(***************************************************************************)
(* handle_liquidation_set and handle_open_interest, each on the next       *)
(* candle of the for loop of main.                                         *)
(***************************************************************************)
\* lines 160-166: the next candle, and its long amount
HandleLiquidationLong ==
    /\ pc = "liq_loop"
    /\ hpc = "idle"
    /\ batch # <<>>
    /\ LET history == Head(batch)
           tuple == LiquidationTuple(history.t, "long", history.l)
       IN  /\ batch' = Tail(batch)
           /\ candle' = history
           /\ IF /\ ExceedsMinimalLiquidation(history.l)
                 /\ NotScanned(tuple, scanned_data)
              THEN Announce(tuple, tuple, "liq_short")
              ELSE /\ hpc' = "liq_short"
                   /\ UNCHANGED <<cur, announced>>
    /\ UNCHANGED <<pc, net, ignored, scanned_data, symbols, TMP_MP3_DIR, tmpFiles,
                   playLeft, marketRequests, lastPoll, crash>>

\* lines 167-168: the short amount of the same candle
HandleLiquidationShort ==
    /\ pc = "liq_loop"
    /\ hpc = "liq_short"
    /\ LET tuple == LiquidationTuple(candle.t, "short", candle.s)
       IN  IF /\ ExceedsMinimalLiquidation(candle.s)
              /\ NotScanned(tuple, scanned_data)
           THEN /\ Announce(tuple, tuple, "idle")
                /\ UNCHANGED candle
           ELSE /\ hpc' = "idle"
                /\ candle' = NoCandle
                /\ UNCHANGED <<cur, announced>>
    /\ UNCHANGED <<pc, net, batch, ignored, scanned_data, symbols, TMP_MP3_DIR, tmpFiles,
                   playLeft, marketRequests, lastPoll, crash>>

HandleOpenInterest ==
    /\ pc = "oi_loop"
    /\ hpc = "idle"
    /\ batch # <<>>
    /\ LET history == Head(batch)
       IN  /\ batch' = Tail(batch)
           /\ IF OpenInterestAnnounces(history, scanned_data)
              THEN Announce(OpenInterestTuple(history),
                            <<history.t, history.o, Difference(history)>>,
                            "idle")
              ELSE UNCHANGED <<hpc, cur, announced>>
           /\ ignored' = IF Difference(history) < MINIMAL_OPEN_INTEREST
                         THEN ignored \cup {OpenInterestTuple(history)}
                         ELSE ignored
    /\ UNCHANGED <<pc, net, candle, scanned_data, symbols, TMP_MP3_DIR,
                   tmpFiles, playLeft, marketRequests, lastPoll, crash>>

(***************************************************************************)
(* main: the for loops end, and the two sleeps.                            *)
(***************************************************************************)
AfterLoop(p) == IF p = "liq_loop" THEN "sleep_1" ELSE "sleep_2"
\* mutant: the second half of the loop body is never reached
AfterSleepLiquidationAgain(p) == "poll_liq"

AfterSleep(p) == IF p = "sleep_1" THEN "poll_oi" ELSE "poll_liq"

LoopEnd ==
    /\ pc \in {"liq_loop", "oi_loop"}
    /\ hpc = "idle"
    /\ batch = <<>>
    /\ pc' = AfterLoop(pc)
    /\ ignored' = {}
    /\ UNCHANGED <<hpc, net, batch, candle, cur, scanned_data, symbols,
                   TMP_MP3_DIR, tmpFiles, playLeft, announced, marketRequests,
                   lastPoll,
                   crash>>

Sleep ==
    /\ pc \in {"sleep_1", "sleep_2"}
    /\ pc' = AfterSleep(pc)
    /\ lastPoll' = "none"
    /\ UNCHANGED <<hpc, net, batch, candle, ignored, cur, scanned_data, symbols,
                   TMP_MP3_DIR, tmpFiles, playLeft, announced, marketRequests,
                   crash>>

Next ==
    \/ MarketsRequest
    \/ SymbolsReturn
    \/ EndpointRequest
    \/ HandleUrlReturn
    \/ HandleLiquidationLong
    \/ HandleLiquidationShort
    \/ HandleOpenInterest
    \/ TtsSave
    \/ MixerLoad
    \/ MixerPlay
    \/ WaitBusy
    \/ OsRemove
    \/ ScannedDataAdd
    \/ LoopEnd
    \/ Sleep

Spec == Init /\ [][Next]_vars

(***************************************************************************)
(* Properties.                                                             *)
(***************************************************************************)
Announcing == {"tts_save", "mixer_load", "mixer_play", "wait_busy",
               "os_remove", "add"}

\* handle_liquidation_set is about to look at amount k[3] of direction k[2]
LongOccurs(k) ==
    /\ pc = "liq_loop" /\ hpc = "idle" /\ batch # <<>>
    /\ k = <<Head(batch).t, "long", Head(batch).l>>
ShortOccurs(k) ==
    /\ pc = "liq_loop" /\ hpc = "liq_short"
    /\ k = <<candle.t, "short", candle.s>>
Occurs(k) == LongOccurs(k) \/ ShortOccurs(k)

\* C1: over any sequence of liquidation polls, a key (time, direction, amount)
\* with amount > MINIMAL_LIQUIDATION is announced exactly once in the run: its
\* count is 1 after every occurrence of the key in a processed candle (the
\* first occurrence raises it from 0, a later one leaves it), no step that is
\* not an occurrence of the key changes its count, and the count never
\* exceeds 1.
C1_AnnouncedExactlyOnce ==
    /\ [][\A k \in LiqKeys :
            k[3] > MINIMAL_LIQUIDATION =>
                IF Occurs(k) THEN announced'[k] = 1
                             ELSE announced'[k] = announced[k]]_vars
    /\ [](\A k \in LiqKeys : announced[k] <= 1)

\* C1 witness: a key that was announced and remembered occurs again
C1_Witness ==
    \E k \in LiqKeys :
        /\ k[3] > MINIMAL_LIQUIDATION
        /\ Occurs(k)
        /\ k \in scanned_data
        /\ announced[k] = 1

\* C2 as claimed: in every reachable state a key is in scanned_data if and
\* only if it has been announced.
C2_SeenIffAnnounced ==
    \A k \in AllKeys : k \in scanned_data <=> announced[k] >= 1

\* C2 as amended: in every reachable state every key in scanned_data has been
\* announced, and every announced key is in scanned_data except the one key
\* whose announcement is in progress (from its console line to its insertion)
\* or has stopped the process by failing.
C2_SeenIffAnnouncedExceptCurrent ==
    \A k \in AllKeys :
        /\ k \in scanned_data => announced[k] >= 1
        /\ (announced[k] >= 1 /\ k \notin scanned_data) =>
               (hpc \in Announcing /\ cur.key = k)

\* C2 witness: one key announced and remembered, another one announced and
\* not yet remembered
C2_Witness ==
    /\ hpc \in Announcing
    /\ cur.key \notin scanned_data
    /\ announced[cur.key] = 1
    /\ \E k \in scanned_data : announced[k] = 1

\* C3: a liquidation amount <= MINIMAL_LIQUIDATION (the threshold included) is
\* never announced and its key (time, direction, amount) is never in
\* scanned_data.
C3_AtOrBelowThresholdIgnored ==
    \A k \in LiqKeys :
        k[3] <= MINIMAL_LIQUIDATION =>
            (announced[k] = 0 /\ k \notin scanned_data)

\* C3 witness: the long amount of the candle in hand was the threshold itself,
\* and the handler has gone on to the short amount
C3_Witness ==
    /\ pc = "liq_loop" /\ hpc = "liq_short"
    /\ candle.l = MINIMAL_LIQUIDATION
    /\ announced[<<candle.t, "long", candle.l>>] = 0

\* handle_open_interest is about to be called on the next candle
OINext == pc = "oi_loop" /\ hpc = "idle" /\ batch # <<>>

\* C4: handle_open_interest announces a candle if and only if its raw
\* difference |high - low| is >= MINIMAL_OPEN_INTEREST and the key (time,
\* rounded difference) is not in scanned_data, nothing else announces while
\* open-interest candles are processed, and so no open-interest key is
\* announced more than once, whatever raw differences round to it.
C4_OpenInterestAnnouncedIff ==
    /\ [][pc = "oi_loop" =>
            IF OINext
            THEN LET history == Head(batch)
                     tuple == OpenInterestTuple(history)
                 IN  IF /\ Difference(history) >= MINIMAL_OPEN_INTEREST
                        /\ tuple \notin scanned_data
                     THEN announced' = [announced EXCEPT ![tuple] = @ + 1]
                     ELSE announced' = announced
            ELSE announced' = announced]_vars
    /\ [](\A k \in OIKeys : announced[k] <= 1)

\* C4 witness: of two candles with the same time whose raw differences are
\* both >= the threshold, differ and round to the same value, the first has
\* been announced and the second is the next of the batch
C4_Witness ==
    /\ pc = "oi_loop" /\ hpc = "add" /\ batch # <<>>
    /\ cur.title[3] >= MINIMAL_OPEN_INTEREST
    /\ Difference(Head(batch)) >= MINIMAL_OPEN_INTEREST
    /\ Difference(Head(batch)) # cur.title[3]
    /\ OpenInterestTuple(Head(batch)) = cur.key
    /\ announced[cur.key] = 1

\* C5 as claimed: for every response with a successful status handle_url
\* returns without raising, and returns the empty sequence when the body is
\* empty or malformed.
C5_HandleUrlNeverRaises ==
    [][(pc \in Polling /\ net.url = UrlOf(pc) /\ net.resp.status = "ok") =>
          (/\ crash' = "none"
           /\ net.resp \in MalformedResponses =>
                 (pc' = LoopOf(pc) /\ batch' = <<>>))]_vars

FailedStatus == {"transport_error", "http_error"}
CycleSuccessor(p) ==
    CASE p = "liq_loop" -> "sleep_1"
      [] p = "sleep_1" -> "poll_oi"
      [] p = "oi_loop" -> "sleep_2"
      [] p = "sleep_2" -> "poll_liq"

\* C6: when the GET of a poll fails with a transport error or a non-success
\* status, handle_url returns the empty sequence and does not raise; for the
\* rest of that cycle scanned_data is unchanged and nothing is announced, and
\* main goes on through the empty loop to the sleep and to the next poll.
C6_FailedPollIsEmptyCycle ==
    /\ [][(pc \in Polling /\ net.url = UrlOf(pc)
              /\ net.resp.status \in FailedStatus) =>
            (/\ pc' = LoopOf(pc)
             /\ batch' = <<>>
             /\ crash' = "none"
             /\ scanned_data' = scanned_data
             /\ announced' = announced)]_vars
    /\ [](lastPoll \in FailedStatus =>
            (/\ pc \in {"liq_loop", "sleep_1", "oi_loop", "sleep_2"}
             /\ batch = <<>>
             /\ hpc = "idle"
             /\ crash = "none"))
    /\ [][(lastPoll \in FailedStatus) =>
            (/\ pc' = CycleSuccessor(pc)
             /\ scanned_data' = scanned_data
             /\ announced' = announced
             /\ crash' = "none")]_vars

\* C6 witness: after earlier announcements a poll has failed and main has
\* reached the sleep that follows it
C6_Witness ==
    /\ lastPoll \in FailedStatus
    /\ pc \in {"sleep_1", "sleep_2"}
    /\ scanned_data # {}

\* C7 as claimed: once convert_speech_to_text has written its mp3 file, the
\* file is gone whenever the call has ended, by returning or by a failure of
\* load or play.
C7_TempFileRemoved ==
    (\/ hpc = "add"
     \/ crash = "speech" /\ hpc \in {"mixer_load", "mixer_play"})
        => Mp3Path(TMP_MP3_DIR, cur.title) \notin tmpFiles

\* C8 as claimed: FUTURE_MARKETS_URL is requested at most once in a run.
C8_MarketsRequestedOnce == marketRequests <= 1

\* C9 as claimed: when the markets endpoint returns a listing (an array of
\* market objects with a symbol each), the cached symbols value is the
\* comma-joined list of the listed symbols that start with BTC when upper-cased,
\* in listing order.
C9_SymbolsAreListedBtc ==
    [][(net.url = FUTURE_MARKETS_URL /\ net.resp \in ListingResponses) =>
          symbols' = [cached |-> TRUE,
                      value |-> Join(BtcSymbols(net.resp.body.elems))]]_vars

PcSuccessors(p) ==
    CASE p = "poll_liq" -> {"poll_liq", "liq_loop", "crashed"}
      [] p = "liq_loop" -> {"liq_loop", "sleep_1", "crashed"}
      [] p = "sleep_1" -> {"poll_oi"}
      [] p = "poll_oi" -> {"poll_oi", "oi_loop", "crashed"}
      [] p = "oi_loop" -> {"oi_loop", "sleep_2", "crashed"}
      [] p = "sleep_2" -> {"poll_liq"}
      [] p = "crashed" -> {"crashed"}

\* C10: main goes round the fixed cycle poll liquidation, process the batch,
\* sleep, poll open interest, process the batch, sleep: a loop is left only
\* when every candle of its batch has been handled, each endpoint is requested
\* only in its own poll and at most once in it, and the candles a handler gets
\* are the ones its own endpoint returned.
C10_FixedCycle ==
    /\ [][/\ pc' \in PcSuccessors(pc)
          /\ (pc \in {"liq_loop", "oi_loop"} /\ pc' \in {"sleep_1", "sleep_2"})
                => (batch = <<>> /\ hpc = "idle")
          /\ net.url \in {LIQUIDATION_URL, OPEN_INTEREST_URL}
                => pc' \notin Polling]_vars
    /\ [](/\ net.url = LIQUIDATION_URL => pc \in {"poll_liq", "crashed"}
          /\ net.url = OPEN_INTEREST_URL => pc \in {"poll_oi", "crashed"}
          /\ pc = "liq_loop" => \A i \in DOMAIN batch : batch[i] \in LiqCandles
          /\ pc = "oi_loop" => \A i \in DOMAIN batch : batch[i] \in OICandles
          /\ pc \notin {"liq_loop", "oi_loop"} => batch = <<>>
          /\ hpc = "liq_short" => pc = "liq_loop"
          /\ hpc # "idle" => pc \in {"liq_loop", "oi_loop", "crashed"})

\* C10 witness: a whole cycle has run, with an announcement in each half, and
\* main is in the second sleep
C10_Witness ==
    /\ pc = "sleep_2"
    /\ scanned_data \cap LiqKeys # {}
    /\ scanned_data \cap OIKeys # {}

\* C11: from the console line of an announcement until its playback is over,
\* its mp3 file removed and its key inserted, no request is sent or pending,
\* no candle is taken from the batch, nothing else is announced and main stays
\* where it is; the announcement is left only when the mixer is no longer busy,
\* the file is gone and the key is in scanned_data.
C11_AnnouncementBlocks ==
    /\ [][(hpc \in Announcing /\ crash = "none") =>
            (/\ net' = NoRequest
             /\ announced' = announced
             /\ crash' = "none" => (pc' = pc /\ batch' = batch)
             /\ hpc' \notin Announcing =>
                   (/\ playLeft = 0
                    /\ Mp3Path(TMP_MP3_DIR, cur.title) \notin tmpFiles'
                    /\ cur.key \in scanned_data'))]_vars
    /\ [](hpc \in Announcing =>
            (net = NoRequest /\ pc \in {"liq_loop", "oi_loop", "crashed"}))

\* C11 witness: the mixer is busy with an announcement while another candle
\* of the batch is waiting
C11_Witness ==
    /\ hpc = "wait_busy"
    /\ playLeft > 0
    /\ batch # <<>>
    /\ cur.key \notin scanned_data

LongKey(c) == <<c.t, "long", c.l>>
ShortKey(c) == <<c.t, "short", c.s>>
BothAbove(c) == c.l > MINIMAL_LIQUIDATION /\ c.s > MINIMAL_LIQUIDATION

\* C12: for a liquidation candle whose long and short amounts both exceed
\* MINIMAL_LIQUIDATION and whose keys are both unseen, the handler announces
\* the long amount first and nothing else, the insertion of the long key leaves
\* the short key unseen, the short amount is announced next, and when the
\* short key is inserted scanned_data holds the two distinct keys (time,
\* "long", long amount) and (time, "short", short amount), equal amounts
\* included.
C12_LongThenShort ==
    /\ [][(/\ pc = "liq_loop" /\ hpc = "idle" /\ batch # <<>>
           /\ BothAbove(Head(batch))
           /\ LongKey(Head(batch)) \notin scanned_data
           /\ ShortKey(Head(batch)) \notin scanned_data) =>
            (/\ hpc' = "tts_save"
             /\ cur'.key = LongKey(Head(batch))
             /\ cur'.ret = "liq_short"
             /\ candle' = Head(batch)
             /\ announced' =
                  [announced EXCEPT ![LongKey(Head(batch))] = @ + 1])]_vars
    /\ [][(/\ hpc \in Announcing /\ cur.ret = "liq_short" /\ crash = "none"
           /\ BothAbove(candle)
           /\ ShortKey(candle) \notin scanned_data) =>
            (/\ ShortKey(candle) \notin scanned_data'
             /\ announced' = announced
             /\ crash' = "none" => candle' = candle
             /\ hpc' = "liq_short" => LongKey(candle) \in scanned_data')]_vars
    /\ [][(/\ pc = "liq_loop" /\ hpc = "liq_short"
           /\ BothAbove(candle)
           /\ ShortKey(candle) \notin scanned_data) =>
            (/\ hpc' = "tts_save"
             /\ cur'.key = ShortKey(candle)
             /\ cur'.ret = "idle"
             /\ announced' = [announced EXCEPT ![ShortKey(candle)] = @ + 1])]_vars
    /\ [][(/\ pc = "liq_loop" /\ hpc = "add" /\ cur.ret = "idle"
           /\ BothAbove(candle)
           /\ LongKey(candle) \in scanned_data) =>
            (/\ {LongKey(candle), ShortKey(candle)} \subseteq scanned_data'
             /\ Cardinality(scanned_data') >= 2)]_vars

\* C12 witness: a candle with two equal amounts above the threshold; its long
\* key is the only key seen, its short amount has been announced as well and
\* its short key is about to be inserted
C12_Witness ==
    /\ pc = "liq_loop" /\ hpc = "add" /\ cur.ret = "idle"
    /\ BothAbove(candle)
    /\ candle.l = candle.s
    /\ cur.key = ShortKey(candle)
    /\ scanned_data = {LongKey(candle)}
    /\ announced[LongKey(candle)] = 1
    /\ announced[ShortKey(candle)] = 1

\* the keys of the same time and direction as k with another amount above the
\* threshold
Siblings(k) ==
    { <<k[1], k[2], a>> : a \in { b \in LiqAmounts :
                                    b > MINIMAL_LIQUIDATION /\ b # k[3] } }

\* C13: a liquidation observation above the threshold whose own key is unseen
\* is announced, once, whatever keys of the same time and direction with
\* another amount are in scanned_data already.
C13_OtherAmountDoesNotSuppress ==
    /\ [][\A k \in Times \X Directions \X LiqAmounts :
            (/\ Occurs(k)
             /\ k[3] > MINIMAL_LIQUIDATION
             /\ k \notin scanned_data
             /\ Siblings(k) \cap scanned_data # {}) =>
                (/\ hpc' = "tts_save"
                 /\ cur'.key = k
                 /\ announced[k] = 0
                 /\ announced'[k] = 1)]_vars
    /\ [](\A k \in scanned_data : announced[k] = 1)

\* C13 witness: an observation occurs whose key is unseen while the key of the
\* same time and direction with another amount has been announced and inserted
C13_Witness ==
    \E k \in LiqKeys :
        /\ Occurs(k)
        /\ k[3] > MINIMAL_LIQUIDATION
        /\ k \notin scanned_data
        /\ \E j \in Siblings(k) : j \in scanned_data /\ announced[j] = 1

\* C14: scanned_data is empty when the scanner is constructed, and every step
\* of the run (a request, its answer, a failed poll, a candle, a step of an
\* announcement, a sleep, a crash) leaves it a superset of what it was: the
\* only step that changes it is the insertion at the end of an announcement,
\* which adds the announced key to the keys already there.
C14_ScannedDataMonotonic ==
    /\ scanned_data = {}
    /\ [][(/\ scanned_data \subseteq scanned_data'
           /\ scanned_data' # scanned_data =>
                (/\ hpc = "add"
                 /\ scanned_data' = scanned_data \cup {cur.key}))]_vars

\* C14 witness: keys of both handlers are in scanned_data, the last poll
\* failed, and the loop sleeps
C14_Witness ==
    /\ pc \in {"sleep_1", "sleep_2"}
    /\ lastPoll \in FailedStatus
    /\ scanned_data \cap LiqKeys # {}
    /\ scanned_data \cap OIKeys # {}

\* C15: an open-interest candle whose raw difference is below
\* MINIMAL_OPEN_INTEREST announces nothing and inserts nothing (every key an
\* open-interest announcement inserts comes from a raw difference at or above
\* the threshold), so a later candle of the loop with a raw difference at or
\* above the threshold and the key of a candle skipped before it is announced
\* unless its key was announced already, and its key is announced once.
C15_BelowThresholdLeavesKeyFree ==
    /\ [][(OINext /\ Difference(Head(batch)) < MINIMAL_OPEN_INTEREST) =>
            (/\ scanned_data' = scanned_data
             /\ announced' = announced
             /\ hpc' = "idle"
             /\ cur' = cur)]_vars
    /\ []((pc = "oi_loop" /\ hpc \in Announcing) =>
            cur.title[3] >= MINIMAL_OPEN_INTEREST)
    /\ [][(/\ OINext
           /\ Difference(Head(batch)) >= MINIMAL_OPEN_INTEREST
           /\ OpenInterestTuple(Head(batch)) \in ignored) =>
            (/\ announced'[OpenInterestTuple(Head(batch))] = 1
             /\ OpenInterestTuple(Head(batch)) \notin scanned_data =>
                  (/\ announced[OpenInterestTuple(Head(batch))] = 0
                   /\ hpc' = "tts_save"
                   /\ cur'.key = OpenInterestTuple(Head(batch))))]_vars
    /\ [](\A k \in OIKeys : announced[k] <= 1)

\* C15 witness: the candle being announced has the key of a candle the loop
\* skipped before it, and that key had not been inserted
C15_Witness ==
    /\ pc = "oi_loop"
    /\ hpc = "tts_save"
    /\ cur.key \in ignored
    /\ cur.key \notin scanned_data
    /\ announced[cur.key] = 1

\* the answer in flight is a JSON array whose first element is a result object
FirstResultInFlight ==
    /\ pc \in Polling
    /\ net.url = UrlOf(pc)
    /\ net.resp.status = "ok"
    /\ net.resp.body.kind = "array"
    /\ Len(net.resp.body.elems) >= 1
    /\ net.resp.body.elems[1].isObject

\* C16: when the answer is an array whose first element is a result object,
\* handle_url returns the history of that element, the empty sequence when it
\* has none, whatever the later elements hold; the handlers are given the
\* candles of the returned list one by one and nothing else, so a candle of a
\* later result only is never processed or announced.
C16_FirstResultOnly ==
    /\ [][FirstResultInFlight =>
            (/\ batch' = IF net.resp.body.elems[1].hasHistory
                         THEN net.resp.body.elems[1].history
                         ELSE <<>>
             /\ pc' = LoopOf(pc)
             /\ announced' = announced)]_vars
    /\ [][(batch' # batch) =>
            \/ pc \in Polling /\ net.url = UrlOf(pc)
            \/ batch' = Tail(batch) /\ hpc = "idle" /\ pc \in {"liq_loop", "oi_loop"}
            \/ batch' = <<>> /\ crash' # "none"]_vars
    /\ [][(announced' # announced) =>
            (/\ pc \in {"liq_loop", "oi_loop"}
             /\ \/ hpc = "idle" /\ batch # <<>> /\ batch' = Tail(batch)
                \/ hpc = "liq_short" /\ candle # NoCandle)]_vars

\* C16 witness: handle_url is handling a two-result answer to the liquidation
\* request whose first result has a history of one candle and whose second
\* result holds another candle, with amounts above the threshold
C16_Witness ==
    /\ FirstResultInFlight
    /\ pc = "poll_liq"
    /\ Len(net.resp.body.elems) = 2
    /\ Len(net.resp.body.elems[1].history) = 1
    /\ net.resp.body.elems[2].history # net.resp.body.elems[1].history
    /\ BothAbove(net.resp.body.elems[2].history[1])
    /\ scanned_data = {}

\* C17: once gTTS or the mixer has raised during an announcement the process
\* has ended: main is left, no request is in flight, the key of the failed
\* announcement is not in scanned_data, and no step of the program follows,
\* so no request is sent and no key is inserted after the failure.
C17_SpeechFailureEndsProcess ==
    /\ [](crash = "speech" =>
            (/\ pc = "crashed"
             /\ net = NoRequest
             /\ hpc \in {"tts_save", "mixer_load", "mixer_play"}
             /\ cur.key \notin scanned_data))
    /\ [][crash # "speech"]_vars

\* C17 witness: the playback of an open-interest announcement has raised after
\* earlier announcements had succeeded; the key was announced on the console
\* and is not in scanned_data
C17_Witness ==
    /\ crash = "speech"
    /\ hpc = "mixer_play"
    /\ Len(cur.key) = 2
    /\ announced[cur.key] = 1
    /\ scanned_data # {}
    /\ cur.key \notin scanned_data

\* the keys of n fields in scanned_data
KeysOfLen(n) == { k \in scanned_data : Len(k) = n }

\* C19: the liquidation handler inserts 3-tuples (time, direction, amount)
\* and the open-interest handler 2-tuples (time, rounded difference); an
\* open-interest candle at or above its threshold is announced whenever its
\* key is not among the 2-tuples of scanned_data, and a liquidation amount
\* above its threshold whenever its key is not among the 3-tuples, whatever
\* keys of the other handler are in the set.
C19_HandlersDoNotInterfere ==
    /\ [][(scanned_data' # scanned_data) =>
            (/\ pc = "liq_loop" =>
                  (Len(cur.key) = 3 /\ cur.key[2] \in Directions)
             /\ pc = "oi_loop" => Len(cur.key) = 2
             /\ pc \in {"liq_loop", "oi_loop"})]_vars
    /\ [][(/\ OINext
           /\ Difference(Head(batch)) >= MINIMAL_OPEN_INTEREST
           /\ <<Head(batch).t, RoundedDifference(Difference(Head(batch)))>>
                 \notin KeysOfLen(2)) =>
            (/\ hpc' = "tts_save"
             /\ cur'.key =
                  <<Head(batch).t, RoundedDifference(Difference(Head(batch)))>>
             /\ announced' # announced)]_vars
    /\ [][\A k \in Times \X Directions \X LiqAmounts :
            (/\ Occurs(k)
             /\ k[3] > MINIMAL_LIQUIDATION
             /\ k \notin KeysOfLen(3)) =>
                (/\ hpc' = "tts_save"
                 /\ cur'.key = k
                 /\ announced' # announced)]_vars

\* C19 witness: an open-interest candle is being announced while the long and
\* the short liquidation key of the same time and the same number are in
\* scanned_data
C19_Witness ==
    /\ pc = "oi_loop"
    /\ hpc = "tts_save"
    /\ Len(cur.key) = 2
    /\ <<cur.key[1], "long", cur.key[2]>> \in scanned_data
    /\ <<cur.key[1], "short", cur.key[2]>> \in scanned_data
    /\ cur.key \notin scanned_data

\* C20: the path convert_speech_to_text loads is the path it has saved and
\* will remove, whatever TMP_MP3_DIR is.
C20_OneFile ==
    hpc \in {"mixer_load", "mixer_play", "wait_busy", "os_remove"} =>
        Mp3Path(LoadDir, cur.title) = Mp3Path(TMP_MP3_DIR, cur.title)

(***************************************************************************)
(* The run under the assumptions of a loop that is never stopped from      *)
(* outside: the mp3 directory is the one the mixer loads from, gTTS and    *)
(* the mixer never raise, every call returns or raises and the process     *)
(* takes its next step.  The program is one sequential process, so weak    *)
(* fairness of its next step is all the scheduling gives.                  *)
(***************************************************************************)
LiveInit == Init /\ TMP_MP3_DIR = LoadDir
NoSpeechFailure == crash' # "speech"
LiveNext ==
    \/ MarketsRequest
    \/ SymbolsReturn
    \/ EndpointRequest
    \/ HandleUrlReturn
    \/ TtsSave /\ NoSpeechFailure
    \/ MixerLoad /\ NoSpeechFailure
    \/ MixerPlay /\ NoSpeechFailure
    \/ WaitBusy
    \/ OsRemove
    \/ ScannedDataAdd
    \/ HandleLiquidationLong
    \/ HandleLiquidationShort
    \/ HandleOpenInterest
    \/ LoopEnd
    \/ Sleep
LiveSpec == LiveInit /\ [][LiveNext]_vars /\ WF_vars(LiveNext)

\* C18: when every HTTP call returns or raises and no playback fails, main
\* never ends, it calls handle_url for the liquidation endpoint and for the
\* open-interest endpoint again and again, and after a poll of an endpoint
\* that failed it polls that endpoint again.
C18_LoopRunsForever ==
    /\ [](pc # "crashed")
    /\ []<>(pc = "poll_liq")
    /\ []<>(pc = "poll_oi")
    /\ \A p \in Polling :
          (pc = LoopOf(p) /\ lastPoll \in FailedStatus) ~> (pc = p)

====
